---- MODULE Spec2Model ----
(***************************************************************************)
(* A model of the duperrormsg analyzer (duperrormsg/duperrormsg.go).       *)
(*                                                                         *)
(* Go strings are modelled as sequences of one-character strings, so that  *)
(* strings.Trim, strings.HasPrefix, strings.Contains, strings.ToLower and  *)
(* the regular expression of extractStringLiteral are computed character   *)
(* by character, as the code computes them.                                *)
(***************************************************************************)
EXTENDS Integers, Sequences, FiniteSets, TLC

VARIABLES
    nodes,      \* the call expressions of the package, in Preorder order
    pc,         \* position of run: "idle", "walk", "range", "done"
    idx,        \* index of the next call expression Preorder visits
    errorMap,   \* run's errorMap: message -> sequence of ErrorInfo
    ranged,     \* keys of errorMap the range loop has already yielded
    diags,      \* the diagnostics pass.Reportf has received in this run
    runs,       \* number of runs of the analyzer started so far
    prevDiags   \* the diagnostics of the previous run

vars == <<nodes, pc, idx, errorMap, ranged, diags, runs, prevDiags>>

----------------------------------------------------------------------------
(* Bounds of the model.                                                    *)

MaxNodes == 4
MaxRuns == 2
MaxLen == 3
MaxArgs == 2

----------------------------------------------------------------------------
(* Characters and the string functions the code calls.                     *)

UpperCase == <<"A","B","C","D","E","F","G","H","I","J","K","L","M",
               "N","O","P","Q","R","S","T","U","V","W","X","Y","Z">>

LowerCase == <<"a","b","c","d","e","f","g","h","i","j","k","l","m",
               "n","o","p","q","r","s","t","u","v","w","x","y","z">>

Letters == {UpperCase[i] : i \in 1..26} \cup {LowerCase[i] : i \in 1..26}

Digits == {"0","1","2","3","4","5","6","7","8","9"}

\* the character class of formatSpecifier: letters, digits, . - + #
SpecifierClass == Letters \cup Digits \cup {".", "-", "+", "#"}

\* The two delimiters of Go string literals.  The module's lexer rejects a
\* backquote inside a string, so the backquote character is written "BQ".
DoubleQuote == "\""

Backquote == "BQ"

\* the cutset of strings.Trim: backquote and double quote
TrimCutset == {Backquote, DoubleQuote}

ToLowerChar(c) ==
    IF \E i \in 1..26 : UpperCase[i] = c
    THEN LowerCase[CHOOSE i \in 1..26 : UpperCase[i] = c]
    ELSE c

ToLower(s) == [i \in 1..Len(s) |-> ToLowerChar(s[i])]

HasPrefix(s, p) == Len(s) >= Len(p) /\ SubSeq(s, 1, Len(p)) = p

HasSuffix(s, p) == Len(s) >= Len(p) /\ SubSeq(s, Len(s) - Len(p) + 1, Len(s)) = p

Contains(s, p) == \E i \in 0..(Len(s) - Len(p)) : SubSeq(s, i + 1, i + Len(p)) = p

RECURSIVE TrimLeft(_, _)
TrimLeft(s, cutset) ==
    IF s # <<>> /\ Head(s) \in cutset THEN TrimLeft(Tail(s), cutset) ELSE s

RECURSIVE TrimRight(_, _)
TrimRight(s, cutset) ==
    IF s # <<>> /\ s[Len(s)] \in cutset
    THEN TrimRight(SubSeq(s, 1, Len(s) - 1), cutset)
    ELSE s

\* strings.Trim(s, cutset): all leading and trailing characters of cutset removed
Trim(s, cutset) == TrimRight(TrimLeft(s, cutset), cutset)

----------------------------------------------------------------------------
(* The regexp formatSpecifier and formatSpecifier.ReplaceAllString.        *)

RECURSIVE ClassRunEnd(_, _)
\* the last index of the longest run of class characters starting at i
ClassRunEnd(s, i) ==
    IF i <= Len(s) /\ s[i] \in SpecifierClass THEN ClassRunEnd(s, i + 1) ELSE i - 1

\* s[i] = "%": the end of the match that starts at i, 0 if none starts there.
\* The starred class is greedy, so the match ends at the last letter of the run.
MatchEnd(s, i) ==
    LET e == ClassRunEnd(s, i + 1)
        ls == {j \in (i + 1)..e : s[j] \in Letters}
    IN  IF ls = {} THEN 0 ELSE CHOOSE j \in ls : \A k \in ls : k <= j

RECURSIVE ReplaceFrom(_, _)
\* non-overlapping matches, leftmost first, each replaced by "%x"
ReplaceFrom(s, i) ==
    IF i > Len(s) THEN <<>>
    ELSE LET e == IF s[i] = "%" THEN MatchEnd(s, i) ELSE 0
         IN  IF e > 0
             THEN <<"%", "x">> \o ReplaceFrom(s, e + 1)
             ELSE <<s[i]>> \o ReplaceFrom(s, i + 1)

ReplaceAllString(raw) == ReplaceFrom(raw, 1)

----------------------------------------------------------------------------
(* AST nodes.  An argument is a BasicLit of kind STRING (value = the raw   *)
(* token, delimiters included), a BasicLit of another kind, or another     *)
(* expression.                                                             *)

StringLit(token) == [node |-> "BasicLit", kind |-> "STRING", value |-> token]

IntLit == [node |-> "BasicLit", kind |-> "INT", value |-> <<"7">>]

OtherExpr == [node |-> "Ident", kind |-> "", value |-> <<>>]

IsStringLit(arg) == arg.node = "BasicLit" /\ arg.kind = "STRING"

\* a call pkg.Sel(args) whose receiver is a plain identifier
SelCall(pkg, sel, args) ==
    [fun |-> "SelectorExpr", x |-> "Ident", xname |-> pkg, name |-> sel, args |-> args]

\* a call <recv>.Sel(args) whose receiver is a call or a selector expression
RecvCall(xkind, sel, args) ==
    [fun |-> "SelectorExpr", x |-> xkind, xname |-> <<>>, name |-> sel, args |-> args]

\* a call Name(args) of a bare identifier
IdentCall(name, args) ==
    [fun |-> "Ident", x |-> "", xname |-> <<>>, name |-> name, args |-> args]

\* a call whose callee is neither a selector nor an identifier, e.g. fns[0](args)
IndexCall(args) ==
    [fun |-> "IndexExpr", x |-> "", xname |-> <<>>, name |-> <<>>, args |-> args]

----------------------------------------------------------------------------
(* extractStringLiteral                                                    *)

NoNormalization(arg) ==
    IF IsStringLit(arg) THEN Trim(arg.value, TrimCutset) ELSE <<>>

extractStringLiteral(arg) ==
    IF IsStringLit(arg)
    THEN ReplaceAllString(Trim(arg.value, TrimCutset))
    ELSE <<>>

----------------------------------------------------------------------------
(* The string constants of getErrorConstructName and extractErrorMessage.   *)

S_errors == <<"e", "r", "r", "o", "r", "s">>

S_fmt == <<"f", "m", "t">>

S_log == <<"l", "o", "g">>

S_logger == <<"l", "o", "g", "g", "e", "r">>

S_fail == <<"f", "a", "i", "l">>

S_New == <<"N", "e", "w">>

S_Errorf == <<"E", "r", "r", "o", "r", "f">>

S_Error == <<"E", "r", "r", "o", "r">>

S_Err == <<"E", "r", "r">>

S_Fail == <<"F", "a", "i", "l">>

S_Log == <<"L", "o", "g">>

S_Logf == <<"L", "o", "g", "f">>

S_LogError == <<"L", "o", "g", "E", "r", "r", "o", "r">>

S_LogErrorf == <<"L", "o", "g", "E", "r", "r", "o", "r", "f">>

S_Print == <<"P", "r", "i", "n", "t">>

S_errorsNew == <<"e", "r", "r", "o", "r", "s", ".", "N", "e", "w">>

S_fmtErrorf == <<"f", "m", "t", ".", "E", "r", "r", "o", "r", "f">>

logFuncSuffixes == <<
    <<>>,
    <<"f">>,
    <<"l", "n">>,
    <<"E", "r", "r", "o", "r">>,
    <<"E", "r", "r", "o", "r", "f">>,
    <<"E", "r", "r", "o", "r", "l", "n">>,
    <<"F", "a", "t", "a", "l">>,
    <<"F", "a", "t", "a", "l", "f">>,
    <<"F", "a", "t", "a", "l", "l", "n">>,
    <<"P", "a", "n", "i", "c">>,
    <<"P", "a", "n", "i", "c", "f">>,
    <<"P", "a", "n", "i", "c", "l", "n">>,
    <<"W", "a", "r", "n", "i", "n", "g">>,
    <<"W", "a", "r", "n", "i", "n", "g", "f">>,
    <<"W", "a", "r", "n", "i", "n", "g", "l", "n">>,
    <<"I", "n", "f", "o">>,
    <<"I", "n", "f", "o", "f">>,
    <<"I", "n", "f", "o", "l", "n">>>>

----------------------------------------------------------------------------
(* getErrorConstructName: the five recognition rules, in the order the     *)
(* code tries them.  Each gives the construct name, or "" (the empty       *)
(* sequence) when it does not match.                                       *)

ChainedLogMethods == {S_Logf, S_LogErrorf, S_LogError, S_Log}

\* a selector whose X is a call: only the four log methods are recognized
chainedCall(call) ==
    IF call.fun = "SelectorExpr" /\ call.x = "CallExpr" /\ call.name \in ChainedLogMethods
    THEN call.name
    ELSE <<>>

\* errors.New and fmt.Errorf
builtinCall(call) ==
    IF call.fun = "SelectorExpr" /\ call.x = "Ident"
    THEN IF call.xname = S_errors /\ call.name = S_New THEN S_errorsNew
         ELSE IF call.xname = S_fmt /\ call.name = S_Errorf THEN S_fmtErrorf
         ELSE <<>>
    ELSE <<>>

\* logging functions on an identifier that is or contains "log"
loggingCall(call) ==
    IF /\ call.fun = "SelectorExpr" /\ call.x = "Ident"
       /\ (call.xname = S_log \/ Contains(ToLower(call.xname), S_log))
       /\ \E i \in DOMAIN logFuncSuffixes :
             \/ call.name = logFuncSuffixes[i]
             \/ call.name = S_Log \o logFuncSuffixes[i]
             \/ call.name = S_Print \o logFuncSuffixes[i]
    THEN call.xname
    ELSE <<>>

\* the name test of the common error constructor patterns
selectorNamePattern(name) ==
    \/ HasSuffix(name, S_Error)
    \/ HasPrefix(name, S_New)
    \/ Contains(name, S_Error)
    \/ Contains(ToLower(name), S_fail)

\* a fallback that does not look at the kind of the receiver
selectorFallbackAnyReceiver(call) ==
    IF call.fun = "SelectorExpr" /\ selectorNamePattern(call.name)
    THEN call.name
    ELSE <<>>

\* common error constructor patterns on a selector whose X is an identifier
selectorFallback(call) ==
    IF call.fun = "SelectorExpr" /\ call.x = "Ident" /\ selectorNamePattern(call.name)
    THEN call.name
    ELSE <<>>

\* direct function identifiers such as NewUserError
identFallback(call) ==
    IF /\ call.fun = "Ident"
       /\ HasPrefix(call.name, S_New)
       /\ (\/ Contains(call.name, S_Error)
           \/ Contains(call.name, S_Err)
           \/ Contains(call.name, S_Fail))
    THEN call.name
    ELSE <<>>

getErrorConstructName(call) ==
    IF chainedCall(call) # <<>> THEN chainedCall(call)
    ELSE IF builtinCall(call) # <<>> THEN builtinCall(call)
    ELSE IF loggingCall(call) # <<>> THEN loggingCall(call)
    ELSE IF selectorFallback(call) # <<>> THEN selectorFallback(call)
    ELSE identFallback(call)

----------------------------------------------------------------------------
(* extractErrorMessage                                                     *)

\* the nil ast.Expr
NilExpr == [node |-> "nil", kind |-> "", value |-> <<>>]

\* the constructs whose case takes call.Args[0]
FirstArgConstructs == {S_fmtErrorf, S_log, S_logger, S_Log, S_Logf, S_LogError, S_LogErrorf}

\* a default case that looks at the first argument only
firstArgOnly(args) ==
    IF IsStringLit(args[1]) THEN args[1] ELSE NilExpr

\* the default case: the first argument if it is a string literal, else the
\* first string literal among the arguments, else nil
defaultMessageArg(args) ==
    IF IsStringLit(args[1]) THEN args[1]
    ELSE IF \E i \in 1..Len(args) : IsStringLit(args[i])
         THEN args[CHOOSE i \in 1..Len(args) :
                     IsStringLit(args[i]) /\ \A j \in 1..(i - 1) : ~IsStringLit(args[j])]
         ELSE NilExpr

\* the switch on construct; args is not empty
messageArg(construct, args) ==
    IF construct = S_errorsNew
    THEN IF Len(args) # 1 THEN NilExpr ELSE args[1]
    ELSE IF construct \in FirstArgConstructs THEN args[1]
    ELSE defaultMessageArg(args)

NoMessage == [construct |-> <<>>, msg |-> <<>>]

extractErrorMessage(call) ==
    LET construct == getErrorConstructName(call)
    IN  IF construct = <<>> \/ Len(call.args) = 0 THEN NoMessage
        ELSE LET msgArg == messageArg(construct, call.args)
                 msg == extractStringLiteral(msgArg)
             IN  IF msgArg = NilExpr \/ msg = <<>> THEN NoMessage
                 ELSE [construct |-> construct, msg |-> msg]

----------------------------------------------------------------------------
(* run                                                                     *)

\* make(map[string][]ErrorInfo)
EmptyMap == [k \in {} |-> <<>>]

\* a registry that keeps only the latest occurrence of a key
appendInfoOverwrite(m, msg, info) ==
    IF msg \in DOMAIN m
    THEN [m EXCEPT ![msg] = <<info>>]
    ELSE m @@ (msg :> <<info>>)

\* errorMap[msg] = append(errorMap[msg], info)
appendInfo(m, msg, info) ==
    IF msg \in DOMAIN m
    THEN [m EXCEPT ![msg] = Append(@, info)]
    ELSE m @@ (msg :> <<info>>)

\* the Preorder callback on the call expression at position pos
visitCall(m, call, pos) ==
    LET r == extractErrorMessage(call)
    IN  IF r.construct = <<>> \/ r.msg = <<>> THEN m
        ELSE appendInfo(m, r.msg, [Pos |-> pos, Construct |-> r.construct])

\* the two pass.Reportf calls
primaryDiag(msg, firstLoc) ==
    [pos |-> firstLoc.Pos, text |-> "used in multiple locations", msg |-> msg, at |-> 0]

\* a secondary diagnostic that refers to its own position
secondaryDiagSelf(msg, loc, firstLoc) ==
    [pos |-> loc.Pos, text |-> "also used at", msg |-> msg, at |-> loc.Pos]

secondaryDiag(msg, loc, firstLoc) ==
    [pos |-> loc.Pos, text |-> "also used at", msg |-> msg, at |-> firstLoc.Pos]

\* a range loop body that also reports a key recorded once
reportGroupAny(msg, locations) ==
    IF Len(locations) > 0
    THEN <<primaryDiag(msg, locations[1])>> \o
         [i \in 1..(Len(locations) - 1) |-> secondaryDiag(msg, locations[i + 1], locations[1])]
    ELSE <<>>

\* the body of the range loop for one entry of errorMap
reportGroup(msg, locations) ==
    IF Len(locations) > 1
    THEN <<primaryDiag(msg, locations[1])>> \o
         [i \in 1..(Len(locations) - 1) |-> secondaryDiag(msg, locations[i + 1], locations[1])]
    ELSE <<>>

\* the analysis driver calls Analyzer.Run on the package
StartRun ==
    /\ pc \in {"idle", "done"}
    /\ runs < MaxRuns
    /\ runs' = runs + 1
    /\ prevDiags' = diags
    /\ errorMap' = EmptyMap
    /\ ranged' = {}
    /\ diags' = <<>>
    /\ idx' = 1
    /\ pc' = IF Len(nodes) = 0 THEN "range" ELSE "walk"
    /\ UNCHANGED nodes

\* inspector.Preorder calls the callback on the next call expression
Visit ==
    /\ pc = "walk"
    /\ errorMap' = visitCall(errorMap, nodes[idx], idx)
    /\ idx' = idx + 1
    /\ pc' = IF idx = Len(nodes) THEN "range" ELSE "walk"
    /\ UNCHANGED <<nodes, ranged, diags, runs, prevDiags>>

\* one iteration of "for msg, locations := range errorMap": Go leaves the
\* iteration order of a map unspecified, so any key not yet yielded may come
RangeStep ==
    /\ pc = "range"
    /\ \E msg \in DOMAIN errorMap \ ranged :
          /\ diags' = diags \o reportGroup(msg, errorMap[msg])
          /\ ranged' = ranged \cup {msg}
    /\ UNCHANGED <<nodes, pc, idx, errorMap, runs, prevDiags>>

\* the range loop is over: return nil, nil
Return ==
    /\ pc = "range"
    /\ ranged = DOMAIN errorMap
    /\ pc' = "done"
    /\ UNCHANGED <<nodes, idx, errorMap, ranged, diags, runs, prevDiags>>

Next == StartRun \/ Visit \/ RangeStep \/ Return

----------------------------------------------------------------------------
(* Inputs.                                                                 *)

\* an interpreted string literal and a raw string literal with this content
Quoted(content) == <<DoubleQuote>> \o content \o <<DoubleQuote>>

RawQuoted(content) == <<Backquote>> \o content \o <<Backquote>>

S_NewUserError == <<"N", "e", "w", "U", "s", "e", "r", "E", "r", "r", "o", "r">>

S_NewItemError == <<"N", "e", "w", "I", "t", "e", "m", "E", "r", "r", "o", "r">>


\* call expressions like those of the analyzer's test data
NodePool ==
    { SelCall(S_errors, S_New, <<StringLit(Quoted(<<"a">>))>>),
      SelCall(S_fmt, S_Errorf, <<StringLit(Quoted(<<"a">>))>>),
      SelCall(S_fmt, S_Errorf, <<StringLit(Quoted(<<"u", "%", "s">>)), OtherExpr>>),
      SelCall(S_fmt, S_Errorf, <<StringLit(RawQuoted(<<"u", "%", "v">>)), OtherExpr>>),
      IdentCall(S_NewUserError, <<StringLit(Quoted(<<"b">>))>>),
      SelCall(S_errors, S_New, <<StringLit(Quoted(<<>>))>>) }

RECURSIVE SeqsUpTo(_, _)
\* the sequences over S of length at most n
SeqsUpTo(S, n) ==
    IF n = 0 THEN {<<>>}
    ELSE LET shorter == SeqsUpTo(S, n - 1)
         IN  shorter \cup {Append(s, x) : s \in {t \in shorter : Len(t) = n - 1}, x \in S}

Start ==
    /\ pc = "idle"
    /\ idx = 1
    /\ errorMap = EmptyMap
    /\ ranged = {}
    /\ diags = <<>>
    /\ runs = 0
    /\ prevDiags = <<>>

Init ==
    /\ nodes \in SeqsUpTo(NodePool, MaxNodes)
    /\ Start

Spec == Init /\ [][Next]_vars

----------------------------------------------------------------------------
(* Inputs for the normalization: every string literal over a small         *)
(* alphabet, next to a literal that differs from it in verb letters only.  *)

\* a percent sign, two letters, a digit, a flag, a space and the two delimiters
NormAlphabet == {"%", "s", "v", "2", "+", " ", DoubleQuote, Backquote}

NormLetters == NormAlphabet \cap Letters

\* an interpreted literal cannot hold a bare double quote, a raw one no backquote
Tokens(n) ==
    {Quoted(c) : c \in SeqsUpTo(NormAlphabet \ {DoubleQuote}, n)} \cup
    {RawQuoted(c) : c \in SeqsUpTo(NormAlphabet \ {Backquote}, n)}

\* the flag, width and precision characters of a format specifier
FlagChars == Digits \cup {".", "-", "+", "#"}

RECURSIVE FlagRunEnd(_, _)
FlagRunEnd(s, i) ==
    IF i <= Len(s) /\ s[i] \in FlagChars THEN FlagRunEnd(s, i + 1) ELSE i - 1

\* s[i] = "%": the index of the verb letter of the specifier starting at i, or 0
VerbOf(s, i) ==
    LET v == FlagRunEnd(s, i + 1) + 1
    IN  IF v <= Len(s) /\ s[v] \in Letters THEN v ELSE 0

\* the indices of the verb letters of the format specifiers of s
VerbPositions(s) ==
    {v \in 1..Len(s) : \E i \in 1..Len(s) : s[i] = "%" /\ VerbOf(s, i) = v}

RECURSIVE VariantsFrom(_, _)
VariantsFrom(s, i) ==
    IF i > Len(s) THEN {<<>>}
    ELSE {<<h>> \o r : h \in (IF i \in VerbPositions(s) THEN NormLetters ELSE {s[i]}),
                       r \in VariantsFrom(s, i + 1)}

\* the literals that differ from s in verb letters only
VerbVariants(s) == VariantsFrom(s, 1)

InitNorm ==
    /\ \E a \in Tokens(MaxLen) : \E b \in VerbVariants(a) :
          nodes = << SelCall(S_errors, S_New, <<StringLit(a)>>),
                     SelCall(S_fmt, S_Errorf, <<StringLit(b), OtherExpr>>) >>
    /\ Start

SpecNorm == InitNorm /\ [][Next]_vars

----------------------------------------------------------------------------
(* Inputs for the recognition: every call shape over a few names and       *)
(* argument lists, alone or followed by a call of a custom constructor.    *)

S_NewThing == <<"N", "e", "w", "T", "h", "i", "n", "g">>

S_MakeError == <<"M", "a", "k", "e", "E", "r", "r", "o", "r">>

S_WrapError == <<"W", "r", "a", "p", "E", "r", "r", "o", "r">>

S_OnFail == <<"O", "n", "F", "a", "i", "l">>

S_Printf == <<"P", "r", "i", "n", "t", "f">>

S_Get == <<"G", "e", "t">>

S_svc == <<"s", "v", "c">>

S_UpperLogger == <<"L", "o", "g", "g", "e", "r">>

IdentNames == {S_NewUserError, S_NewItemError, S_NewThing, S_MakeError}

PkgNames == {S_errors, S_fmt, S_log, S_logger, S_UpperLogger, S_svc}

SelNames == {S_New, S_Errorf, S_Printf, S_Logf, S_LogError, S_LogErrorf,
             S_WrapError, S_OnFail, S_Get}

ArgPool == {StringLit(Quoted(<<"a">>)), StringLit(RawQuoted(<<"b">>)),
            StringLit(Quoted(<<>>)), IntLit, OtherExpr}

CallNodes ==
    LET argLists == SeqsUpTo(ArgPool, MaxArgs)
    IN  {SelCall(pkg, sel, args) : pkg \in PkgNames, sel \in SelNames, args \in argLists} \cup
        {RecvCall(k, sel, args) : k \in {"CallExpr", "SelectorExpr"}, sel \in SelNames,
                                  args \in argLists} \cup
        {IdentCall(name, args) : name \in IdentNames, args \in argLists} \cup
        {IndexCall(args) : args \in argLists}

FollowerPool ==
    { IdentCall(S_NewItemError, <<StringLit(Quoted(<<"a">>))>>),
      SelCall(S_svc, S_WrapError, <<OtherExpr, StringLit(RawQuoted(<<"b">>))>>) }

InitRecog ==
    /\ \E c \in CallNodes :
          nodes \in {<<c>>} \cup {<<c, d>> : d \in FollowerPool}
    /\ Start

SpecRecog == InitRecog /\ [][Next]_vars

----------------------------------------------------------------------------
(* Notions the properties are stated in.                                   *)

\* the positions Preorder has visited in the current run
Visited == IF pc = "walk" THEN 1..(idx - 1)
           ELSE IF pc = "idle" THEN {} ELSE 1..Len(nodes)

\* the message (construct and key) the call at position p yields
MessageAt(p) == extractErrorMessage(nodes[p])

\* the call at position p yields an occurrence
IsOccurrence(p) == MessageAt(p) # NoMessage

\* the positions recorded in the registry under key k
PositionsOf(k) ==
    IF k \in DOMAIN errorMap
    THEN {errorMap[k][j].Pos : j \in 1..Len(errorMap[k])}
    ELSE {}

RecordedPositions == UNION {PositionsOf(k) : k \in DOMAIN errorMap}

\* the indices of the diagnostics reported at position p
DiagsAt(p) == {i \in 1..Len(diags) : diags[i].pos = p}

\* another occurrence of the pass has the same key as the one at p
HasDuplicate(p) ==
    \E q \in 1..Len(nodes) : q # p /\ IsOccurrence(q) /\ MessageAt(q).msg = MessageAt(p).msg

\* the earliest position in traversal order whose occurrence has key k
FirstPositionOf(k) ==
    CHOOSE p \in 1..Len(nodes) :
        /\ IsOccurrence(p) /\ MessageAt(p).msg = k
        /\ \A q \in 1..(p - 1) : ~(IsOccurrence(q) /\ MessageAt(q).msg = k)

----------------------------------------------------------------------------
(* C1: when a pass is over, an occurrence has a diagnostic iff another     *)
(* occurrence of the pass has the same key, whatever the constructs; it    *)
(* then has exactly one, carrying the key; nothing else has a diagnostic.  *)
C1_Grouping ==
    pc = "done" =>
        /\ \A p \in 1..Len(nodes) :
              IF IsOccurrence(p) /\ HasDuplicate(p)
              THEN /\ Cardinality(DiagsAt(p)) = 1
                   /\ \A i \in DiagsAt(p) : diags[i].msg = MessageAt(p).msg
              ELSE DiagsAt(p) = {}
        /\ \A i \in 1..Len(diags) : diags[i].pos \in 1..Len(nodes)

\* a pass that reported a group made of two different constructs and left a
\* key recorded once unreported
C1_Witness ==
    /\ pc = "done"
    /\ \E k \in DOMAIN errorMap :
          /\ Len(errorMap[k]) = 2
          /\ errorMap[k][1].Construct # errorMap[k][2].Construct
          /\ \A p \in PositionsOf(k) : DiagsAt(p) # {}
    /\ \E k \in DOMAIN errorMap : Len(errorMap[k]) = 1 /\ \A p \in PositionsOf(k) : DiagsAt(p) = {}

(* C2: in every reported group the earliest occurrence of the key, and it  *)
(* alone, has the "used in multiple locations" diagnostic; every other     *)
(* occurrence of the key has an "also used at" diagnostic that refers to   *)
(* the position of that earliest occurrence.                               *)
C2_FirstOccurrence ==
    pc = "done" =>
        \A p \in 1..Len(nodes) :
            (IsOccurrence(p) /\ HasDuplicate(p)) =>
                LET first == FirstPositionOf(MessageAt(p).msg)
                IN  \A i \in DiagsAt(p) :
                        IF p = first
                        THEN diags[i].text = "used in multiple locations"
                        ELSE diags[i].text = "also used at" /\ diags[i].at = first

\* a pass that reported a group of three occurrences, one of them not next to the first
C2_Witness ==
    /\ pc = "done"
    /\ \E k \in DOMAIN errorMap : Len(errorMap[k]) >= 3 /\ \A p \in PositionsOf(k) : DiagsAt(p) # {}
    /\ \E i \in 1..Len(diags) : diags[i].text = "also used at" /\ diags[i].at # diags[i].pos - 1

(* C3: a second run on the same call expressions reports the diagnostics   *)
(* of the first run, in the same order.                                    *)
C3_Determinism ==
    (pc = "done" /\ runs >= 2) => diags = prevDiags

(* C10: during a pass every key of the registry is a non-empty string      *)
(* mapped to a non-empty sequence of occurrences in traversal order, no    *)
(* diagnostic exists before the traversal is over, and visiting a call     *)
(* expression leaves the registry unchanged (when the call yields no       *)
(* message) or appends one occurrence, at the visited position, to one     *)
(* key's sequence and changes nothing else.                                *)
C10_RegistryInv ==
    /\ \A k \in DOMAIN errorMap :
          /\ k # <<>>
          /\ Len(errorMap[k]) >= 1
          /\ \A i, j \in 1..Len(errorMap[k]) : i < j => errorMap[k][i].Pos < errorMap[k][j].Pos
    /\ pc = "walk" => diags = <<>>

C10_AppendOne ==
    \E k \in DOMAIN errorMap' :
        /\ DOMAIN errorMap' = DOMAIN errorMap \cup {k}
        /\ \A h \in DOMAIN errorMap \ {k} : errorMap'[h] = errorMap[h]
        /\ Len(errorMap'[k]) = (IF k \in DOMAIN errorMap THEN Len(errorMap[k]) ELSE 0) + 1
        /\ k \in DOMAIN errorMap =>
              \A j \in 1..Len(errorMap[k]) : errorMap'[k][j] = errorMap[k][j]
        /\ errorMap'[k][Len(errorMap'[k])].Pos = idx

C10_Step ==
    /\ pc = "walk" =>
          IF IsOccurrence(idx) THEN C10_AppendOne ELSE errorMap' = errorMap
    /\ pc = "range" => errorMap' = errorMap

C10_AppendOnly == []C10_RegistryInv /\ [][C10_Step]_vars

\* mid-traversal, an occurrence has been appended to a key recorded before,
\* next to another key
C10_Witness ==
    /\ pc = "walk"
    /\ \E k \in DOMAIN errorMap : Len(errorMap[k]) >= 2
    /\ Cardinality(DOMAIN errorMap) >= 2

----------------------------------------------------------------------------
(* Notions of the claims about normalization.                              *)

\* the call at p is errors.New or fmt.Errorf with a string literal as its
\* message argument
BuiltinWithLiteral(p) ==
    /\ builtinCall(nodes[p]) # <<>>
    /\ Len(nodes[p].args) >= 1
    /\ IsStringLit(nodes[p].args[1])
    /\ builtinCall(nodes[p]) = S_errorsNew => Len(nodes[p].args) = 1

\* the raw token of the message argument of the call at p
TokenAt(p) == nodes[p].args[1].value

\* the token without its opening and its closing delimiter
ContentOf(token) == SubSeq(token, 2, Len(token) - 1)

\* two tokens of one length that differ at most in verb letters
SameUpToVerbs(a, b) ==
    /\ Len(a) = Len(b)
    /\ \A i \in 1..Len(a) :
          a[i] # b[i] => i \in VerbPositions(a) /\ i \in VerbPositions(b)

RECURSIVE SpecifiersReplacedFrom(_, _)
\* every "%", flag characters, one letter replaced by "%x"; the rest kept
SpecifiersReplacedFrom(s, i) ==
    IF i > Len(s) THEN <<>>
    ELSE LET v == IF s[i] = "%" THEN VerbOf(s, i) ELSE 0
         IN  IF v > 0
             THEN <<"%", "x">> \o SpecifiersReplacedFrom(s, v + 1)
             ELSE <<s[i]>> \o SpecifiersReplacedFrom(s, i + 1)

(* C4: two literals that differ only in the verb letters of their format   *)
(* specifiers, passed to errors.New or fmt.Errorf in one pass, are         *)
(* recorded under one key and both reported when the pass is over.         *)
C4_VerbEquivalence ==
    pc = "done" =>
        \A p, q \in 1..Len(nodes) :
            ( /\ p # q
              /\ BuiltinWithLiteral(p) /\ BuiltinWithLiteral(q)
              /\ VerbPositions(TokenAt(p)) # {}
              /\ SameUpToVerbs(TokenAt(p), TokenAt(q)) ) =>
                /\ \E k \in DOMAIN errorMap : {p, q} \subseteq PositionsOf(k)
                /\ DiagsAt(p) # {}
                /\ DiagsAt(q) # {}

\* a pass over two literals with different verbs, both reported
C4_Witness ==
    /\ pc = "done"
    /\ Len(nodes) = 2
    /\ BuiltinWithLiteral(1) /\ BuiltinWithLiteral(2)
    /\ TokenAt(1) # TokenAt(2)
    /\ SameUpToVerbs(TokenAt(1), TokenAt(2))
    /\ DiagsAt(1) # {} /\ DiagsAt(2) # {}

(* C7: the key of a literal is its stripped text with exactly the          *)
(* substrings "%", flag characters, one letter replaced by the             *)
(* placeholder, every other character kept.                                *)
C7_ExactSpecifiers ==
    \A p \in Visited :
        BuiltinWithLiteral(p) =>
            LET key == SpecifiersReplacedFrom(Trim(TokenAt(p), TrimCutset), 1)
            IN  key # <<>> => p \in PositionsOf(key)

(* C9: the key of a literal is derived from its content, the token without *)
(* its one opening and its one closing delimiter and with nothing else     *)
(* removed.                                                                *)
C9_DelimitersOnly ==
    \A p \in Visited :
        BuiltinWithLiteral(p) =>
            LET key == ReplaceAllString(ContentOf(TokenAt(p)))
            IN  key # <<>> => p \in PositionsOf(key)

----------------------------------------------------------------------------
(* Notions of the claims about recognition.                                *)

\* the call matches rule 1, 2 or 3
MatchesRules123(call) ==
    chainedCall(call) # <<>> \/ builtinCall(call) # <<>> \/ loggingCall(call) # <<>>

\* the call matches none of rules 1 to 3 and matches rule 4 or 5
MatchesFallback(call) ==
    /\ ~MatchesRules123(call)
    /\ selectorFallback(call) # <<>> \/ identFallback(call) # <<>>

\* the index of the first string literal among args, 0 if there is none
FirstLiteral(args) ==
    IF \E i \in 1..Len(args) : IsStringLit(args[i])
    THEN CHOOSE i \in 1..Len(args) :
            IsStringLit(args[i]) /\ \A j \in 1..(i - 1) : ~IsStringLit(args[j])
    ELSE 0

\* the construct of the first rule, in the order 1 to 5, that matches
FirstMatch(call) ==
    LET r == <<chainedCall(call), builtinCall(call), loggingCall(call),
               selectorFallback(call), identFallback(call)>>
    IN  IF \E i \in 1..5 : r[i] # <<>>
        THEN r[CHOOSE i \in 1..5 : r[i] # <<>> /\ \A j \in 1..(i - 1) : r[j] = <<>>]
        ELSE <<>>

\* the construct recorded for the occurrence at position p
ConstructAt(p) ==
    LET k == CHOOSE k \in DOMAIN errorMap : p \in PositionsOf(k)
        j == CHOOSE j \in 1..Len(errorMap[k]) : errorMap[k][j].Pos = p
    IN  errorMap[k][j].Construct

(* C5: a call matched by rule 1, 2 or 3 whose first argument is not a      *)
(* string literal records no occurrence.                                   *)
C5_FirstArgumentOnly ==
    \A p \in Visited :
        ( /\ MatchesRules123(nodes[p])
          /\ (Len(nodes[p].args) = 0 \/ ~IsStringLit(nodes[p].args[1])) ) =>
            p \notin RecordedPositions

\* the key the original C6 gives a fallback call: that of its first string
\* literal argument
C6_KeyAsClaimed(call) ==
    IF FirstLiteral(call.args) = 0 THEN <<>>
    ELSE extractStringLiteral(call.args[FirstLiteral(call.args)])

(* C6 as stated: a call matched by rule 4 or 5, whatever its name, is      *)
(* recorded under its first string literal argument, and is ignored only   *)
(* when no argument is a string literal (a literal whose key is empty is   *)
(* left aside here: an empty key is never recorded).                       *)
C6_FallbackArgument ==
    \A p \in Visited :
        MatchesFallback(nodes[p]) =>
            IF FirstLiteral(nodes[p].args) = 0
            THEN p \notin RecordedPositions
            ELSE C6_KeyAsClaimed(nodes[p]) # <<>> =>
                    p \in PositionsOf(C6_KeyAsClaimed(nodes[p]))

\* the key of a fallback call: LogError and LogErrorf take their first
\* argument only, every other name its first string literal argument
C6_Key(call) ==
    LET i == IF call.name \in {S_LogError, S_LogErrorf}
             THEN (IF Len(call.args) >= 1 /\ IsStringLit(call.args[1]) THEN 1 ELSE 0)
             ELSE FirstLiteral(call.args)
    IN  IF i = 0 THEN <<>> ELSE extractStringLiteral(call.args[i])

(* C6 amended: a call matched by rule 4 or 5 is recorded under the key of  *)
(* its first string literal argument, unless its name is LogError or       *)
(* LogErrorf, which take the first argument only; it is ignored when there *)
(* is no such literal or when its key is empty.  Two such calls with       *)
(* different names and one non-empty key are both reported.                *)
C6_FallbackArgumentAmended ==
    /\ \A p \in Visited :
          MatchesFallback(nodes[p]) =>
              IF C6_Key(nodes[p]) = <<>>
              THEN p \notin RecordedPositions
              ELSE p \in PositionsOf(C6_Key(nodes[p]))
    /\ pc = "done" =>
          \A p, q \in 1..Len(nodes) :
              ( /\ MatchesFallback(nodes[p]) /\ MatchesFallback(nodes[q])
                /\ nodes[p].name # nodes[q].name
                /\ C6_Key(nodes[p]) # <<>>
                /\ C6_Key(nodes[p]) = C6_Key(nodes[q]) ) =>
                  DiagsAt(p) # {} /\ DiagsAt(q) # {}

\* a pass over two fallback calls of different names, the first with a
\* string literal as its second argument only, both reported
C6_Witness ==
    /\ pc = "done"
    /\ Len(nodes) = 2
    /\ MatchesFallback(nodes[1]) /\ MatchesFallback(nodes[2])
    /\ nodes[1].name # nodes[2].name
    /\ Len(nodes[1].args) = 2
    /\ ~IsStringLit(nodes[1].args[1]) /\ IsStringLit(nodes[1].args[2])
    /\ DiagsAt(1) # {} /\ DiagsAt(2) # {}

\* some argument is a string literal with a non-empty key
HasUsableLiteral(call) ==
    \E i \in 1..Len(call.args) : extractStringLiteral(call.args[i]) # <<>>

(* C8 as stated: a selector call whose receiver is a call or a nested      *)
(* selector, whose method is not one of the four log methods and matches   *)
(* the naming convention of rule 4, is recorded when it has a string       *)
(* literal argument.                                                       *)
C8_AnyReceiver ==
    \A p \in Visited :
        ( /\ nodes[p].fun = "SelectorExpr"
          /\ nodes[p].x \in {"CallExpr", "SelectorExpr"}
          /\ nodes[p].name \notin ChainedLogMethods
          /\ selectorNamePattern(nodes[p].name)
          /\ HasUsableLiteral(nodes[p]) ) =>
            p \in RecordedPositions

(* C8 amended: the rules are tried in the order 1 to 5 and an occurrence   *)
(* carries the construct of the first rule that matches; rules 2 to 4 are  *)
(* tried only on a receiver that is a plain identifier, so a selector call *)
(* whose receiver is a call or a nested selector records nothing unless    *)
(* the receiver is a call and the method one of the four log methods.      *)
C8_IdentReceiverOnly ==
    \A p \in Visited :
        /\ ( /\ nodes[p].fun = "SelectorExpr"
             /\ nodes[p].x # "Ident"
             /\ ~(nodes[p].x = "CallExpr" /\ nodes[p].name \in ChainedLogMethods) ) =>
               p \notin RecordedPositions
        /\ p \in RecordedPositions => ConstructAt(p) = FirstMatch(nodes[p])

\* a finished pass over a call on a call receiver, with a method named by
\* the convention and a usable literal, that recorded nothing for it but
\* recorded the call on an identifier receiver next to it
C8_Witness ==
    /\ pc = "done"
    /\ \E p \in 1..Len(nodes) :
          /\ nodes[p].x = "CallExpr"
          /\ nodes[p].name \notin ChainedLogMethods
          /\ selectorNamePattern(nodes[p].name)
          /\ HasUsableLiteral(nodes[p])
          /\ p \notin RecordedPositions
    /\ \E p \in RecordedPositions : nodes[p].x = "Ident"

====
